---------------------------- MODULE Spec2Model ----------------------------
(***************************************************************************)
(* Model of agent/src/agent.py: the startup sequence of the module, the    *)
(* tool-server configuration loader load_mcp_config and the search tool    *)
(* tavily_search, with the filesystem, the environment, the construction   *)
(* routine load_mcp_servers and the search provider as the environment.    *)
(***************************************************************************)
EXTENDS Naturals, Sequences, FiniteSets, TLC

VARIABLES
    env,            \* os.environ after load_dotenv(): variable -> value
    fs,             \* the filesystem: path -> file state
    fsChanges,      \* number of filesystem changes made by other processes
    pc,             \* position of module initialization
    use_llm_farm,   \* agent.py:43
    missing_keys,   \* agent.py:53
    tavily_client,  \* agent.py:62
    mcp_servers,    \* agent.py:109
    model,          \* agent.py:147
    agent,          \* agent.py:166
    bound,          \* uvicorn.run has bound 0.0.0.0:8000
    loadStack,      \* the active invocations of load_mcp_config, innermost last
    loadResult,     \* outcome of the outermost invocation of load_mcp_config
    trace,          \* history of the steps load_mcp_config has taken
    calls           \* the invocations of tavily_search

vars == <<env, fs, fsChanges, pc, use_llm_farm, missing_keys, tavily_client,
          mcp_servers, model, agent, bound, loadStack, loadResult, trace,
          calls>>

startupVars == <<env, pc, use_llm_farm, missing_keys, tavily_client,
                 mcp_servers, model, agent, bound>>
loadVars == <<fs, fsChanges, loadStack, loadResult, trace>>
searchVars == <<calls>>

-----------------------------------------------------------------------------
(* Bounds of the model. *)

MaxServers == 2
MaxFsChanges == 1
MaxResults == 2
MaxCalls == 2
PoolSize == 1

-----------------------------------------------------------------------------
(* Outcomes of a call: a returned value or a raised exception. *)

Return(v) == [kind |-> "return", value |-> v, exc |-> "none"]
Raise(e) == [kind |-> "raise", value |-> <<>>, exc |-> e]
Pending == [kind |-> "pending", value |-> <<>>, exc |-> "none"]

(* The exception classes the model raises, with their base classes. *)
Bases(cls) ==
    CASE cls = "FileNotFoundError" -> {"FileNotFoundError", "OSError", "Exception"}
      [] cls = "PermissionError" -> {"PermissionError", "OSError", "Exception"}
      [] cls = "JSONDecodeError" -> {"JSONDecodeError", "ValueError", "Exception"}
      [] cls = "ValidationError" -> {"ValidationError", "ValueError", "Exception"}
      [] cls = "ImportError" -> {"ImportError", "Exception"}
      [] cls = "CalledProcessError" ->
            {"CalledProcessError", "SubprocessError", "Exception"}
      [] cls = "AttributeError" -> {"AttributeError", "Exception"}
      [] cls = "TypeError" -> {"TypeError", "Exception"}
      [] cls = "ConnectionError" -> {"ConnectionError", "OSError", "Exception"}
      [] cls = "CancelledError" -> {"CancelledError", "BaseException"}
      [] OTHER -> {cls, "Exception"}

IsInstance(exc, cls) == cls \in Bases(exc)

-----------------------------------------------------------------------------
(* The environment variables. *)

Unset == "<unset>"     \* os.getenv(key) is None
EnvVars == {"USE_LLM_FARM", "LLM_FARM_API_KEY", "OPENAI_API_KEY", "TAVILY_API_KEY"}
FlagValues == {Unset, "true", "TRUE", "false"}
KeyValues == {Unset, "", "key"}
Environments ==
    {e \in [EnvVars -> FlagValues \cup KeyValues] :
        /\ e["USE_LLM_FARM"] \in FlagValues
        /\ \A k \in EnvVars \ {"USE_LLM_FARM"} : e[k] \in KeyValues}

Getenv(key, default) == IF env[key] = Unset THEN default ELSE env[key]

(* str.lower() on the flag values of the model *)
Lower(s) == IF s = "TRUE" THEN "true" ELSE s

(* not os.getenv(key) *)
Falsy(v) == v = Unset \/ v = ""

NoAgent == [model |-> "none", toolsets |-> <<>>]

-----------------------------------------------------------------------------
(* The filesystem. *)

DefaultPath == "mcp_config.json"
FallbackPath == "mcp_config_minimal.json"
Paths == {DefaultPath, FallbackPath}

ServerNames == {"fetch", "k8s"}

RECURSIVE SeqsUpTo(_, _)
SeqsUpTo(S, n) ==
    IF n = 0 THEN {<<>>}
    ELSE LET shorter == SeqsUpTo(S, n - 1)
         IN shorter \cup {Append(s, x) : s \in shorter, x \in S}

Distinct(s) == \A i, j \in 1..Len(s) : s[i] = s[j] => i = j

(* The definitions under "mcpServers": uniquely named, in document order. *)
ServerDefs == {s \in SeqsUpTo(ServerNames, MaxServers) : Distinct(s)}

File(kind, top, key, defs) ==
    [kind |-> kind, top |-> top, mcpServers |-> key, defs |-> defs]

AbsentFile == File("absent", "none", "none", <<>>)
FileStates ==
    {AbsentFile,
     File("unreadable", "none", "none", <<>>),   \* exists, open() fails
     File("badjson", "none", "none", <<>>),      \* not JSON (an empty file)
     File("json", "list", "none", <<>>),         \* JSON, not an object
     File("json", "dict", "none", <<>>),         \* no "mcpServers" key
     File("json", "dict", "number", <<>>)}       \* "mcpServers" has no len()
    \cup {File("json", "dict", "object", d) : d \in ServerDefs}

Exists(path) == fs[path].kind # "absent"

-----------------------------------------------------------------------------
(* load_mcp_config *)

Frame(path, at) == [config_path |-> path, pc |-> at]
Event(ev, path, info) == [ev |-> ev, path |-> path, info |-> info]

Top == loadStack[Len(loadStack)]
Loading == loadStack # <<>>

(* The except clauses of load_mcp_config, in order; each returns []. *)
ExceptClausesNoCatchAll ==
    <<"FileNotFoundError", "JSONDecodeError", "ImportError", "CalledProcessError">>

ExceptClauses ==
    <<"FileNotFoundError", "JSONDecodeError", "ImportError", "CalledProcessError",
      "Exception">>

Handle(exc) ==
    IF \E i \in 1..Len(ExceptClauses) : IsInstance(exc, ExceptClauses[i])
    THEN Return(<<>>)
    ELSE Raise(exc)

(* An invocation ends with r: every caller is at "return load_mcp_config(...)" *)
(* inside its own try block.                                                *)
RECURSIVE Unwind(_, _)
Unwind(r, callers) ==
    IF callers = 0 THEN r
    ELSE Unwind(IF r.kind = "raise" THEN Handle(r.exc) ELSE r, callers - 1)

Finish(r, events) ==
    /\ loadStack' = <<>>
    /\ loadResult' = Unwind(r, Len(loadStack) - 1)
    /\ trace' = trace \o events

Goto(at, events) ==
    /\ loadStack' = [loadStack EXCEPT ![Len(loadStack)].pc = at]
    /\ trace' = trace \o events
    /\ UNCHANGED loadResult

(* with open(config_path) as f: config_data = json.load(f), then the count *)
ReadAndCount(path) ==
    LET f == fs[path] IN
    CASE f.kind = "absent" -> Raise("FileNotFoundError")
      [] f.kind = "unreadable" -> Raise("PermissionError")
      [] f.kind = "badjson" -> Raise("JSONDecodeError")
      [] f.top # "dict" -> Raise("AttributeError")
      [] f.mcpServers = "number" -> Raise("TypeError")
      [] OTHER -> Return(<<>>)

ConstructionFailures == {"ImportError", "CalledProcessError", "ValidationError"}

(* The external routine: it reads the file again and builds one handle per *)
(* definition, or fails.                                                    *)
load_mcp_servers(path) ==
    LET f == fs[path] IN
    CASE f.kind = "absent" -> {Raise("FileNotFoundError")}
      [] f.kind = "unreadable" -> {Raise("PermissionError")}
      [] f.kind = "badjson" -> {Raise("JSONDecodeError")}
      [] f.top # "dict" \/ f.mcpServers = "number" -> {Raise("ValidationError")}
      [] OTHER -> {Return(f.defs)} \cup {Raise(e) : e \in ConstructionFailures}

ShouldFallbackAlways(path) == Exists(FallbackPath)

ShouldFallbackNever(path) == FALSE

ShouldFallback(path) == path # FallbackPath /\ Exists(FallbackPath)

LoadExists ==
    /\ Loading /\ Top.pc = "exists"
    /\ LET p == Top.config_path IN
       Goto(IF Exists(p) THEN "read" ELSE "fallback",
            <<Event("exists", p, IF Exists(p) THEN "yes" ELSE "no")>>)
    /\ UNCHANGED <<fs, fsChanges>>

LoadRead ==
    /\ Loading /\ Top.pc = "read"
    /\ LET p == Top.config_path
           r == ReadAndCount(p)
       IN IF r.kind = "raise"
          THEN Finish(Handle(r.exc), <<Event("raise", p, r.exc)>>)
          ELSE Goto("construct", <<Event("read", p, "ok")>>)
    /\ UNCHANGED <<fs, fsChanges>>

LoadConstructDropsFirst ==
    /\ Loading /\ Top.pc = "construct"
    /\ LET p == Top.config_path IN
       \E r \in load_mcp_servers(p) :
          IF r.kind = "raise"
          THEN Finish(Handle(r.exc), <<Event("raise", p, r.exc)>>)
          ELSE Finish(Return(IF r.value = <<>> THEN <<>> ELSE Tail(r.value)),
                      <<Event("constructed", p, r.value)>>)
    /\ UNCHANGED <<fs, fsChanges>>

LoadConstruct ==
    /\ Loading /\ Top.pc = "construct"
    /\ LET p == Top.config_path IN
       \E r \in load_mcp_servers(p) :
          IF r.kind = "raise"
          THEN Finish(Handle(r.exc), <<Event("raise", p, r.exc)>>)
          ELSE Finish(r, <<Event("constructed", p, r.value)>>)
    /\ UNCHANGED <<fs, fsChanges>>

(* What os.path.exists("mcp_config_minimal.json") answers at this moment. *)
FallbackSeen == IF Exists(FallbackPath) THEN "yes" ELSE "no"

LoadFallback ==
    /\ Loading /\ Top.pc = "fallback"
    /\ LET p == Top.config_path IN
       IF ShouldFallback(p)
       THEN /\ loadStack' = [loadStack EXCEPT ![Len(loadStack)].pc = "await"]
                               \o <<Frame(FallbackPath, "exists")>>
            /\ trace' = trace \o <<Event("fallback", p, FallbackSeen),
                                   Event("call", FallbackPath, "call")>>
            /\ UNCHANGED loadResult
       ELSE Finish(Return(<<>>), <<Event("fallback", p, FallbackSeen)>>)
    /\ UNCHANGED <<fs, fsChanges>>

(* Another process creates, removes or rewrites a file while the loader runs. *)
FsChange ==
    /\ Loading
    /\ fsChanges < MaxFsChanges
    /\ \E p \in Paths, f \in FileStates :
          /\ f # fs[p]
          /\ fs' = [fs EXCEPT ![p] = f]
    /\ fsChanges' = fsChanges + 1
    /\ UNCHANGED <<loadStack, loadResult, trace>>

LoadStep == LoadExists \/ LoadRead \/ LoadConstruct \/ LoadFallback

-----------------------------------------------------------------------------
(* Module initialization, agent.py:43-147, 166-226, 305, and the server start. *)

RequiredKeysBackendOnly(farm) ==
    IF farm THEN <<"LLM_FARM_API_KEY">> ELSE <<"OPENAI_API_KEY">>

RequiredKeys(farm) ==
    IF farm THEN <<"LLM_FARM_API_KEY", "TAVILY_API_KEY">>
    ELSE <<"OPENAI_API_KEY", "TAVILY_API_KEY">>

MissingKeys(required) == SelectSeq(required, LAMBDA k : Falsy(env[k]))

(* use_llm_farm, required_keys, missing_keys and the raise ValueError *)
CheckKeys ==
    /\ pc = "start"
    /\ LET farm == Lower(Getenv("USE_LLM_FARM", "false")) = "true"
           missing == MissingKeys(RequiredKeys(farm))
       IN /\ use_llm_farm' = farm
          /\ missing_keys' = missing
          /\ pc' = IF missing # <<>> THEN "aborted" ELSE "tavily"
    /\ UNCHANGED <<env, tavily_client, mcp_servers, model, agent, bound>>
    /\ UNCHANGED <<loadVars, searchVars>>

InitTavily ==
    /\ pc = "tavily"
    /\ tavily_client' = "TavilyClient"
    /\ pc' = "load"
    /\ UNCHANGED <<env, use_llm_farm, missing_keys, mcp_servers, model, agent, bound>>
    /\ UNCHANGED <<loadVars, searchVars>>

(* mcp_servers = load_mcp_config(): the call with the default path *)
CallLoad ==
    /\ pc = "load"
    /\ loadStack' = <<Frame(DefaultPath, "exists")>>
    /\ trace' = <<Event("call", DefaultPath, "call")>>
    /\ pc' = "loading"
    /\ UNCHANGED <<fs, fsChanges, loadResult>>
    /\ UNCHANGED <<env, use_llm_farm, missing_keys, tavily_client, mcp_servers,
                   model, agent, bound, searchVars>>

(* mcp_servers = load_mcp_config(): the assignment of what the call returned *)
AssignServers ==
    /\ pc = "loading"
    /\ ~Loading
    /\ IF loadResult.kind = "return"
       THEN /\ mcp_servers' = loadResult.value
            /\ pc' = "model"
       ELSE /\ pc' = "aborted"
            /\ UNCHANGED mcp_servers
    /\ UNCHANGED <<env, use_llm_farm, missing_keys, tavily_client, model, agent, bound>>
    /\ UNCHANGED <<loadVars, searchVars>>

initialize_model ==
    IF use_llm_farm THEN "OpenAIChatModel(gpt-4o-mini, LLM Farm)"
    ELSE "openai:gpt-4o-mini"

InitializeModel ==
    /\ pc = "model"
    /\ model' = initialize_model
    /\ pc' = "agent"
    /\ UNCHANGED <<env, use_llm_farm, missing_keys, tavily_client, mcp_servers,
                   agent, bound>>
    /\ UNCHANGED <<loadVars, searchVars>>

(* agent = Agent(model, ..., toolsets=mcp_servers); app = agent.to_ag_ui() *)
CreateAgent ==
    /\ pc = "agent"
    /\ agent' = [model |-> model, toolsets |-> mcp_servers]
    /\ pc' = "main"
    /\ UNCHANGED <<env, use_llm_farm, missing_keys, tavily_client, mcp_servers,
                   model, bound>>
    /\ UNCHANGED <<loadVars, searchVars>>

(* uvicorn.run(app, host="0.0.0.0", port=8000) *)
Serve ==
    /\ pc = "main"
    /\ bound' = TRUE
    /\ pc' = "serving"
    /\ UNCHANGED <<env, use_llm_farm, missing_keys, tavily_client, mcp_servers,
                   model, agent>>
    /\ UNCHANGED <<loadVars, searchVars>>

-----------------------------------------------------------------------------
(* tavily_search, agent.py:232-301 *)

Missing == "<missing>"         \* the key is not in the dict
Null == "<null>"               \* the value is None
NotAString == "<not a str>"    \* a value that is no str

Queries == {"quantum computing", " X "}

Item(title, url, content, score) ==
    [title |-> title, url |-> url, content |-> content, score |-> score]

ItemA == Item("A", "http://a", "a", "0.9")
ItemB == Item("B", Missing, Missing, Missing)
ItemBad == Item(Null, "http://c", "c", "0.1")
ProviderItems == {ItemA, ItemB, ItemBad}
Answers == {Missing, Null, NotAString, "ans"}

(* What tavily_client.search does: it raises, or it returns a reply. *)
Thrown(cls, msg) ==
    [kind |-> "raise", cls |-> cls, msg |-> msg, dict |-> FALSE,
     hasResults |-> FALSE, results |-> <<>>, answer |-> Missing]
Replied(isDict, hasResults, results, answer) ==
    [kind |-> "return", cls |-> "none", msg |-> "none", dict |-> isDict,
     hasResults |-> hasResults, results |-> results, answer |-> answer]
NoOutcome ==
    [kind |-> "pending", cls |-> "none", msg |-> "none", dict |-> FALSE,
     hasResults |-> FALSE, results |-> <<>>, answer |-> Missing]

ProviderFailures ==
    {Thrown("ConnectionError", "connection refused"),
     Thrown("UsageLimitExceededError", "usage limit exceeded")}

ProviderOutcomes ==
    ProviderFailures
    \cup {Replied(FALSE, FALSE, <<>>, Missing)}
    \cup {Replied(TRUE, FALSE, <<>>, a) : a \in Answers}
    \cup {Replied(TRUE, TRUE, r, a) :
             r \in SeqsUpTo(ProviderItems, MaxResults), a \in Answers}

(* The outcomes drawn when several calls run concurrently. *)
ConcurrentOutcomes ==
    {Thrown("ConnectionError", "connection refused"),
     Replied(TRUE, TRUE, <<ItemA>>, "ans"),
     Replied(TRUE, TRUE, <<ItemB, ItemA>>, Missing)}

(* dict.get(key, default) *)
Get(value, default) == IF value = Missing THEN default ELSE value

SearchResult(result) ==
    [title |-> Get(result.title, ""), url |-> Get(result.url, ""),
     content |-> Get(result.content, ""), score |-> Get(result.score, "0.0")]

(* pydantic's validation of the fields of SearchResult *)
ValidSearchResult(r) ==
    /\ r.title \notin {Null, NotAString}
    /\ r.url \notin {Null, NotAString}
    /\ r.content \notin {Null, NotAString}
    /\ r.score \notin {Null, NotAString}

RECURSIVE Reversed(_)
Reversed(s) == IF s = <<>> THEN <<>> ELSE Append(Reversed(Tail(s)), Head(s))

MapItemsReversed(items) == [i \in 1..Len(items) |-> SearchResult(Reversed(items)[i])]

(* the loop over search_result.get("results", []) *)
MapItems(items) == [i \in 1..Len(items) |-> SearchResult(items[i])]

SearchResponse(query, results, answer) ==
    [kind |-> "return", query |-> query, results |-> results, answer |-> answer,
     cls |-> "none"]
Propagated(cls) ==
    [kind |-> "raise", query |-> "none", results |-> <<>>, answer |-> "none",
     cls |-> cls]
NoResponse ==
    [kind |-> "pending", query |-> "none", results |-> <<>>, answer |-> "none",
     cls |-> "none"]

Body(kind, response, cls, msg) ==
    [kind |-> kind, response |-> response, cls |-> cls, msg |-> msg]

(* The try block once the await has delivered `out`. *)
TryBody(query, out) ==
    IF out.kind = "raise" THEN Body("raise", NoResponse, out.cls, out.msg)
    ELSE IF ~out.dict
    THEN Body("raise", NoResponse, "AttributeError",
              "'NoneType' object has no attribute 'get'")
    ELSE LET results == MapItems(IF out.hasResults THEN out.results ELSE <<>>)
             answer == Get(out.answer, "")
         IN IF \E i \in 1..Len(results) : ~ValidSearchResult(results[i])
            THEN Body("raise", NoResponse, "ValidationError",
                      "1 validation error for SearchResult")
            ELSE IF answer = NotAString
            THEN Body("raise", NoResponse, "ValidationError",
                      "1 validation error for SearchResponse")
            ELSE Body("return", SearchResponse(query, results, answer), "none", "none")

SearchExceptClausesOSError == <<"OSError">>

SearchExceptClauses == <<"Exception">>

ErrorResponseNoQuery(query, msg) ==
    SearchResponse("", <<>>, "Search failed: " \o msg)

ErrorResponse(query, msg) ==
    SearchResponse(query, <<>>, "Search failed: " \o msg)

tavily_search(query, out) ==
    LET b == TryBody(query, out) IN
    IF b.kind = "return" THEN b.response
    ELSE IF \E i \in 1..Len(SearchExceptClauses) :
               IsInstance(b.cls, SearchExceptClauses[i])
    THEN ErrorResponse(query, b.msg)
    ELSE Propagated(b.cls)

IdleCall ==
    [pc |-> "idle", query |-> "none", sent |-> "none", worker |-> "none",
     future |-> NoOutcome, response |-> NoResponse]

CallIds == 1..MaxCalls

(* The query of the call started last: what a variable shared by the calls holds. *)
LambdaQueryShared(c) ==
    LET latest == CHOOSE d \in CallIds :
                     /\ calls[d].pc # "idle"
                     /\ \A e \in CallIds : e > d => calls[e].pc = "idle"
    IN calls[latest].query

(* The query the lambda handed to the executor passes to tavily_client.search. *)
LambdaQuery(c) == calls[c].query

(* tavily_search(query) up to the await of loop.run_in_executor *)
SearchCall(c, q) ==
    /\ pc = "serving"
    /\ calls[c].pc = "idle"
    /\ c > 1 => calls[c - 1].pc # "idle"
    /\ calls' = [calls EXCEPT ![c].pc = "awaiting", ![c].query = q,
                              ![c].worker = "queued"]
    /\ UNCHANGED <<startupVars, loadVars>>

(* A free thread of the default executor takes the work item. *)
WorkerStart(c) ==
    /\ calls[c].worker = "queued"
    /\ Cardinality({d \in CallIds : calls[d].worker = "running"}) < PoolSize
    /\ calls' = [calls EXCEPT ![c].worker = "running", ![c].sent = LambdaQuery(c)]
    /\ UNCHANGED <<startupVars, loadVars>>

(* tavily_client.search returns or raises on the worker thread. *)
WorkerFinish(c, out) ==
    /\ calls[c].worker = "running"
    /\ calls' = [calls EXCEPT ![c].worker = "finished", ![c].future = out]
    /\ UNCHANGED <<startupVars, loadVars>>

(* The coroutine resumes with the worker's outcome: agent.py:262-301 *)
SearchResume(c) ==
    /\ calls[c].pc = "awaiting"
    /\ calls[c].worker = "finished"
    /\ calls' = [calls EXCEPT
                    ![c].pc = "returned",
                    ![c].response = tavily_search(calls[c].query, calls[c].future)]
    /\ UNCHANGED <<startupVars, loadVars>>

WorkerAfterCancelInterrupts(worker) == "dropped"

(* Cancelling the awaiting future cancels the executor's work item only *)
(* while it has not started.                                             *)
WorkerAfterCancel(worker) == IF worker = "queued" THEN "dropped" ELSE worker

(* The caller's request is cancelled: CancelledError is raised at the await. *)
Cancel(c) ==
    /\ calls[c].pc = "awaiting"
    /\ calls' = [calls EXCEPT
                    ![c].pc = "cancelled",
                    ![c].worker = WorkerAfterCancel(calls[c].worker),
                    ![c].response =
                        tavily_search(calls[c].query, Thrown("CancelledError", ""))]
    /\ UNCHANGED <<startupVars, loadVars>>

-----------------------------------------------------------------------------
(* Specifications. *)

NoCalls == [c \in 1..MaxCalls |-> IdleCall]

(* load_mcp_config called on any path, over any filesystem *)
InitLoad ==
    /\ env = [k \in EnvVars |-> Unset]
    /\ pc = "load_mcp_config"
    /\ use_llm_farm = FALSE
    /\ missing_keys = <<>>
    /\ tavily_client = "none"
    /\ mcp_servers = <<>>
    /\ model = "none"
    /\ agent = NoAgent
    /\ bound = FALSE
    /\ fs \in [Paths -> FileStates]
    /\ fsChanges = 0
    /\ \E p \in Paths :
          /\ loadStack = <<Frame(p, "exists")>>
          /\ trace = <<Event("call", p, "call")>>
    /\ loadResult = Pending
    /\ calls = NoCalls

NextLoad ==
    \/ LoadExists /\ UNCHANGED <<startupVars, searchVars>>
    \/ LoadRead /\ UNCHANGED <<startupVars, searchVars>>
    \/ LoadConstruct /\ UNCHANGED <<startupVars, searchVars>>
    \/ LoadFallback /\ UNCHANGED <<startupVars, searchVars>>
    \/ FsChange /\ UNCHANGED <<startupVars, searchVars>>

(* The loader is sequential code: its next step is taken in the end. *)
SpecLoad ==
    /\ InitLoad
    /\ [][NextLoad]_vars
    /\ WF_vars(LoadStep /\ UNCHANGED <<fs, fsChanges, startupVars, searchVars>>)

(* The process from its start to the bound server *)
InitStartup ==
    /\ env \in Environments
    /\ pc = "start"
    /\ use_llm_farm = FALSE
    /\ missing_keys = <<>>
    /\ tavily_client = "none"
    /\ mcp_servers = <<>>
    /\ model = "none"
    /\ agent = NoAgent
    /\ bound = FALSE
    /\ fs \in [Paths -> FileStates]
    /\ fsChanges = 0
    /\ loadStack = <<>>
    /\ trace = <<>>
    /\ loadResult = Pending
    /\ calls = NoCalls

NextStartup ==
    \/ CheckKeys
    \/ InitTavily
    \/ CallLoad
    \/ LoadExists /\ UNCHANGED <<startupVars, searchVars>>
    \/ LoadRead /\ UNCHANGED <<startupVars, searchVars>>
    \/ LoadConstruct /\ UNCHANGED <<startupVars, searchVars>>
    \/ LoadFallback /\ UNCHANGED <<startupVars, searchVars>>
    \/ FsChange /\ UNCHANGED <<startupVars, searchVars>>
    \/ AssignServers
    \/ InitializeModel
    \/ CreateAgent
    \/ Serve

SpecStartup == InitStartup /\ [][NextStartup]_vars

(* The process once it serves: what a successful start leaves behind *)
InitServe ==
    \E farm \in BOOLEAN, d \in ServerDefs :
       /\ env = [k \in EnvVars |->
                    IF k = "USE_LLM_FARM" THEN (IF farm THEN "true" ELSE Unset)
                    ELSE "key"]
       /\ pc = "serving"
       /\ use_llm_farm = farm
       /\ missing_keys = <<>>
       /\ tavily_client = "TavilyClient"
       /\ mcp_servers = d
       /\ model = (IF farm THEN "OpenAIChatModel(gpt-4o-mini, LLM Farm)"
                   ELSE "openai:gpt-4o-mini")
       /\ agent = [model |-> model, toolsets |-> d]
       /\ bound = TRUE
       /\ fs = [p \in Paths |->
                   IF p = DefaultPath THEN File("json", "dict", "object", d)
                   ELSE AbsentFile]
       /\ fsChanges = 0
       /\ loadStack = <<>>
       /\ trace = <<Event("call", DefaultPath, "call"),
                    Event("exists", DefaultPath, "yes"),
                    Event("read", DefaultPath, "ok"),
                    Event("constructed", DefaultPath, d)>>
       /\ loadResult = Return(d)
       /\ calls = NoCalls

(* One call of tavily_search, over every outcome of the provider *)
NextSearch ==
    \/ \E q \in Queries : SearchCall(1, q)
    \/ WorkerStart(1)
    \/ \E out \in ProviderOutcomes : WorkerFinish(1, out)
    \/ SearchResume(1)
    \/ Cancel(1)

SpecSearch == InitServe /\ [][NextSearch]_vars

(* Concurrent calls of tavily_search *)
NextServe ==
    \/ \E c \in CallIds, q \in Queries : SearchCall(c, q)
    \/ \E c \in CallIds : WorkerStart(c)
    \/ \E c \in CallIds, out \in ConcurrentOutcomes : WorkerFinish(c, out)
    \/ \E c \in CallIds : SearchResume(c)
    \/ \E c \in CallIds : Cancel(c)

(* The provider's client returns or raises in the end. *)
SpecServe ==
    /\ InitServe
    /\ [][NextServe]_vars
    /\ \A c \in CallIds : WF_vars(\E out \in ConcurrentOutcomes : WorkerFinish(c, out))

-----------------------------------------------------------------------------
(* Properties of load_mcp_config, checked under SpecLoad. *)

LoadDone == ~Loading /\ loadResult.kind # "pending"
Events(ev) == {i \in 1..Len(trace) : trace[i].ev = ev}
Last == trace[Len(trace)]
ValidFile(f) == f.kind = "json" /\ f.top = "dict" /\ f.mcpServers = "object"

(* C1: load_mcp_config never raises; when the file exists at the check and *)
(* reading, parsing, counting or construction fails, the invocation ends    *)
(* there (the fallback is not consulted, nothing else is done) and the      *)
(* result is the empty registry.                                            *)
C1_NeverRaises ==
    /\ loadResult.kind # "raise"
    /\ LoadDone => loadResult.kind = "return"
    /\ \A i \in Events("raise") :
          /\ i = Len(trace)
          /\ trace[i - 1].path = trace[i].path
          /\ trace[i - 1].ev \in {"exists", "read"}
          /\ trace[i - 1].info \in {"yes", "ok"}
          /\ LoadDone
          /\ loadResult = Return(<<>>)

C1_Witness ==
    /\ LoadDone
    /\ Last.ev = "raise"
    /\ Last.info = "AttributeError"

(* C2: primary absent, fallback present and valid, nothing changing the     *)
(* files meanwhile: the loader invokes itself on the fallback path and      *)
(* returns what that load yields (the constructed registry of the fallback  *)
(* document, or the empty registry when its construction fails).            *)
C2_FallbackRegistry ==
    LET primary == trace[1].path IN
    (/\ LoadDone
     /\ fsChanges = 0
     /\ primary # FallbackPath
     /\ ~Exists(primary)
     /\ ValidFile(fs[FallbackPath]))
    => /\ Len(trace) >= 4
       /\ trace[4].ev = "call" /\ trace[4].path = FallbackPath
       /\ Last.path = FallbackPath
       /\ Last.ev \in {"constructed", "raise"}
       /\ Last.ev = "constructed" => loadResult = Return(fs[FallbackPath].defs)
       /\ Last.ev = "raise" =>
             Last.info \in ConstructionFailures /\ loadResult = Return(<<>>)

C2_Witness ==
    /\ LoadDone
    /\ fsChanges = 0
    /\ trace[1].path = DefaultPath
    /\ ~Exists(DefaultPath)
    /\ fs[FallbackPath].defs = <<"k8s", "fetch">>
    /\ loadResult = Return(<<"k8s", "fetch">>)

(* The invocations and the fallback decisions load_mcp_config has made. *)
C3_Inv ==
    /\ Cardinality(Events("call")) <= 2
    /\ Len(loadStack) <= 2
    /\ Cardinality(Events("call")) = 2 =>
          /\ trace[1].path # FallbackPath
          /\ \A i \in Events("call") : i > 1 => trace[i].path = FallbackPath
    /\ \A i \in Events("fallback") :
          /\ trace[i - 1].ev = "exists" /\ trace[i - 1].info = "no"
          /\ (trace[i].path = FallbackPath \/ trace[i].info = "no") =>
                /\ i = Len(trace)
                /\ LoadDone
                /\ loadResult = Return(<<>>)

(* C3: at most one substitution of the path by the fallback path, also when *)
(* files change between the checks; an absent file with the path already    *)
(* the fallback path, or with the fallback absent, gives the empty          *)
(* registry; and the loader terminates.                                     *)
C3_SingleFallback == [](C3_Inv) /\ <>(LoadDone)

C3_Witness ==
    /\ LoadDone
    /\ Cardinality(Events("call")) = 2
    /\ Last.ev = "fallback"
    /\ Last.path = FallbackPath
    /\ loadResult = Return(<<>>)

(* C4: when construction succeeds the loader returns the routine's registry *)
(* unchanged: for a document of N uniquely named definitions, the N         *)
(* handles in document order.                                               *)
C4_RegistrySize ==
    \A i \in Events("constructed") :
       /\ i = Len(trace)
       /\ LoadDone
       /\ loadResult = Return(trace[i].info)
       /\ fsChanges = 0 =>
             /\ ValidFile(fs[trace[i].path]) \/ fs[trace[i].path].defs = <<>>
             /\ Len(loadResult.value) = Len(fs[trace[i].path].defs)
             /\ loadResult.value = fs[trace[i].path].defs

C4_Witness ==
    /\ LoadDone
    /\ fsChanges = 0
    /\ Len(trace) = 4
    /\ Last.ev = "constructed"
    /\ Len(loadResult.value) = 2

-----------------------------------------------------------------------------
(* Properties of tavily_search on its own, checked under SpecSearch. *)

ItemFields == {"title", "url", "content", "score"}

(* The reply is no dict, an item carries a value its field cannot hold, or *)
(* the answer is no str.                                                    *)
Unmappable(out) ==
    /\ out.kind = "return"
    /\ \/ ~out.dict
       \/ \E i \in 1..Len(out.results) :
             \E f \in ItemFields : out.results[i][f] \in {Null, NotAString}
       \/ out.answer = NotAString

MappingErrors ==
    {"'NoneType' object has no attribute 'get'",
     "1 validation error for SearchResult",
     "1 validation error for SearchResponse"}

Defaulted(value, default) == IF value = Missing THEN default ELSE value

(* C5: a provider call that throws, or a reply that cannot be mapped, gives *)
(* results = [] and answer = "Search failed: " + cause; a call that is not  *)
(* cancelled never ends with an exception.                                  *)
C5_SoftFailure ==
    \A c \in CallIds :
       LET call == calls[c] IN
       /\ call.pc # "cancelled" => call.response.kind # "raise"
       /\ call.pc = "returned" => call.response.kind = "return"
       /\ (call.pc = "returned" /\ call.future.kind = "raise") =>
             /\ call.response.results = <<>>
             /\ call.response.answer = "Search failed: " \o call.future.msg
       /\ (call.pc = "returned" /\ Unmappable(call.future)) =>
             /\ call.response.results = <<>>
             /\ call.response.answer \in {"Search failed: " \o m : m \in MappingErrors}

C5_Witness ==
    /\ calls[1].pc = "returned"
    /\ calls[1].future.cls = "UsageLimitExceededError"
    /\ calls[1].response.results = <<>>
    /\ calls[1].response.answer = "Search failed: usage limit exceeded"

(* C6: on the success path, K provider items give exactly K entries, the    *)
(* i-th built from the i-th item with missing fields defaulted, and the     *)
(* provider's answer ("" when the provider omitted it).                     *)
C6_OrderPreserved ==
    \A c \in CallIds :
       LET call == calls[c]
           items == call.future.results
           out == call.response.results
       IN (/\ call.pc = "returned"
           /\ call.future.kind = "return"
           /\ ~Unmappable(call.future))
          => /\ call.response.kind = "return"
             /\ Len(out) = Len(items)
             /\ \A i \in 1..Len(items) :
                   /\ out[i].title = Defaulted(items[i].title, "")
                   /\ out[i].url = Defaulted(items[i].url, "")
                   /\ out[i].content = Defaulted(items[i].content, "")
                   /\ out[i].score = Defaulted(items[i].score, "0.0")
             /\ call.response.answer = Defaulted(call.future.answer, "")

C6_Witness ==
    /\ calls[1].pc = "returned"
    /\ calls[1].future.results = <<ItemB, ItemA>>
    /\ calls[1].future.answer = "ans"
    /\ Len(calls[1].response.results) = 2
    /\ calls[1].response.results[1].title = "B"
    /\ calls[1].response.results[1].score = "0.0"

(* C7: every SearchResponse, of the success path and of the failure path,   *)
(* carries the query of its call unchanged.                                 *)
C7_QueryEcho ==
    \A c \in CallIds :
       /\ calls[c].pc = "returned" => calls[c].response.kind = "return"
       /\ calls[c].response.kind = "return" =>
             /\ calls[c].query \in Queries
             /\ calls[c].response.query = calls[c].query

C7_Witness ==
    /\ calls[1].pc = "returned"
    /\ calls[1].future.kind = "raise"
    /\ calls[1].response.kind = "return"
    /\ calls[1].response.query = " X "

-----------------------------------------------------------------------------
(* Properties of the startup sequence, checked under SpecStartup. *)

KeyMissing(k) == env[k] \in {Unset, ""}
NothingStarted ==
    /\ tavily_client = "none"
    /\ trace = <<>> /\ loadStack = <<>> /\ loadResult = Pending
    /\ mcp_servers = <<>>
    /\ model = "none"
    /\ agent = NoAgent
    /\ ~bound

(* With TAVILY_API_KEY or the key `selected` missing the process aborts at  *)
(* the key check, before anything else is started; nothing starts before    *)
(* the check; and the process aborts for no other key.                      *)
KeysFirst(selected) ==
    /\ pc = "start" => NothingStarted
    /\ (KeyMissing("TAVILY_API_KEY") \/ KeyMissing(selected)) =>
          /\ pc \in {"start", "aborted"}
          /\ NothingStarted
    /\ pc = "aborted" => KeyMissing("TAVILY_API_KEY") \/ KeyMissing(selected)

(* C8 as stated: the required-key check precedes every other step, the      *)
(* selected backend's key being LLM_FARM_API_KEY when USE_LLM_FARM is       *)
(* "true" and OPENAI_API_KEY otherwise.                                     *)
C8_AsStated ==
    KeysFirst(IF env["USE_LLM_FARM"] = "true" THEN "LLM_FARM_API_KEY"
              ELSE "OPENAI_API_KEY")

(* C8, amended: the required-key check precedes every other step, the       *)
(* selected backend's key being LLM_FARM_API_KEY when USE_LLM_FARM is       *)
(* "true" in any letter case and OPENAI_API_KEY otherwise.                  *)
C8_KeysFirst ==
    KeysFirst(IF env["USE_LLM_FARM"] \in {"true", "TRUE"} THEN "LLM_FARM_API_KEY"
              ELSE "OPENAI_API_KEY")

C8_Witness ==
    /\ pc = "aborted"
    /\ env["USE_LLM_FARM"] = "TRUE"
    /\ KeyMissing("LLM_FARM_API_KEY")
    /\ ~KeyMissing("OPENAI_API_KEY")
    /\ ~KeyMissing("TAVILY_API_KEY")
    /\ missing_keys = <<"LLM_FARM_API_KEY">>
    /\ NothingStarted

-----------------------------------------------------------------------------
(* Properties of concurrent calls, checked under SpecServe. *)

OwnResponse(call) ==
    /\ call.response.kind = "return"
    /\ call.response.query = call.query
    /\ call.future.kind = "raise" =>
          /\ call.response.results = <<>>
          /\ call.response.answer = "Search failed: " \o call.future.msg
    /\ call.future.kind = "return" =>
          /\ Len(call.response.results) = Len(call.future.results)
          /\ \A i \in 1..Len(call.future.results) :
                call.response.results[i].title = call.future.results[i].title
          /\ call.response.answer = Defaulted(call.future.answer, "")

C9_Isolated ==
    \A c \in CallIds :
       /\ calls[c].worker \in {"running", "finished"} => calls[c].sent = calls[c].query
       /\ calls[c].pc = "returned" => OwnResponse(calls[c])

(* C9: while serving, the registry and the model handle are never written,  *)
(* and each call sends its own query and answers from its own reply.        *)
C9_NoSharedState ==
    /\ [][mcp_servers' = mcp_servers /\ model' = model /\ agent' = agent]_vars
    /\ [](C9_Isolated)

C9_Witness ==
    /\ calls[1].pc = "awaiting"
    /\ calls[1].worker = "finished"
    /\ calls[2].pc = "returned"
    /\ calls[1].query # calls[2].query
    /\ calls[1].future # calls[2].future
    /\ mcp_servers = <<"k8s", "fetch">>

C10_Discarded ==
    \A c \in CallIds :
       calls[c].pc = "cancelled" =>
          /\ calls[c].response.kind = "raise"
          /\ calls[c].response.cls = "CancelledError"

(* C10: cancelling a call whose provider call runs on a worker thread does  *)
(* not interrupt the worker, which runs to completion; the cancelled call   *)
(* stays cancelled and delivers no SearchResponse, of either path.          *)
C10_CancelKeepsWorker ==
    /\ [][\A c \in CallIds :
             /\ calls[c].worker = "running" =>
                   calls'[c].worker \in {"running", "finished"}
             /\ calls[c].pc = "cancelled" =>
                   /\ calls'[c].pc = "cancelled"
                   /\ calls'[c].response = calls[c].response]_vars
    /\ [](C10_Discarded)
    /\ \A c \in CallIds :
          (calls[c].pc = "cancelled" /\ calls[c].worker = "running")
             ~> (calls[c].pc = "cancelled" /\ calls[c].worker = "finished")

C10_Witness ==
    /\ calls[1].pc = "cancelled"
    /\ calls[1].worker = "finished"
    /\ calls[1].future.kind = "return"
    /\ calls[1].response.kind = "raise"

=============================================================================
